---- MODULE Spec2Model ----
(***************************************************************************)
(* File / message sharing client (nishantsharma113/file_transfer).         *)
(*                                                                         *)
(* The model covers the upload form (FileUpload.tsx), the list view        *)
(* (FileList.tsx), the dashboard view with recent files, and the two       *)
(* backend stores the client talks to: the public.files table (table       *)
(* definition + migration) and the storage bucket.  Every await in a       *)
(* handler is a step boundary: a handler is a small process whose pc       *)
(* names the request whose response it is waiting for.                     *)
(*                                                                         *)
(* Conventions: an optional value is Null (= <<>>) or Some(x) (= <<x>>);   *)
(* a text is the sequence of its characters; a file name is the sequence   *)
(* of its '.'-separated segments; a storage path is <<folder, fileName>>   *)
(* (its '/'-separated segments); an instant is a number of milliseconds.   *)
(***************************************************************************)
EXTENDS Integers, Sequences, FiniteSets, TLC

----------------------------------------------------------------------------
(* Bounds of the model *)

MaxEntries == 2      \* rows ever inserted into public.files
MaxSubmitted == 1    \* rows ever inserted when only the upload form is explored
MaxTicks == 1        \* advances of the clock
MaxNames == 1        \* distinct generated file names (Math.random + Date.now)
MaxCount == 1        \* cap on the counter values explored
MaxIssued == 2       \* cap on the counter when link issuances overlap

----------------------------------------------------------------------------
(* Values *)

Null == <<>>
Some(x) == <<x>>
Val(o) == o[1]

TickMs == 12 * 60 * 60 * 1000          \* the clock advances half a day per tick
MsPerDay == 24 * 60 * 60 * 1000
DefaultExpiryDays == 7
MAX_FILE_SIZE == 50 * 1024 * 1024

Hello == <<"h", "e", "l", "l", "o">>
Padded == <<" ", "h", " ">>
Messages == {<<>>, <<" ">>, Padded}
Whitespace == {" "}

SmallFile == [name |-> <<"a", "txt">>, size |-> 1]
HugeFile == [name |-> <<"b", "bin">>, size |-> MAX_FILE_SIZE + 1]
Files == {SmallFile, HugeFile}

Recipients == {"", "r@x"}
ExpiryTexts == {<<>>, <<"0">>, <<"-", "1">>, <<"1", "x">>}

User1 == [id |-> "u1", email |-> Some("u1@x")]
User2 == [id |-> "u2", email |-> Some("u2@x")]
NoEmailUser == [id |-> "u3", email |-> Null]     \* User.email is optional
Users == {User1, User2, NoEmailUser}
Names == 1..MaxNames

EmptyPath == <<"">>                     \* the string '' (let filePath = '')

UploadFailed == [instanceofError |-> TRUE, message |-> "upload failed"]
NotAuthenticated == [instanceofError |-> TRUE, message |-> "User not authenticated"]
InsertFailed == [instanceofError |-> FALSE, message |-> "insert failed"]
ConstraintViolation == [instanceofError |-> FALSE, message |-> "violates constraint"]
RemoveFailed == [instanceofError |-> TRUE, message |-> "remove failed"]
DeleteFailed == [instanceofError |-> FALSE, message |-> "delete failed"]

----------------------------------------------------------------------------
(* Pure functions of the client *)

\* String.prototype.trim
RECURSIVE TrimStart(_)
TrimStart(s) ==
  IF s = <<>> THEN <<>>
  ELSE IF Head(s) \in Whitespace THEN TrimStart(Tail(s)) ELSE s

RECURSIVE TrimEnd(_)
TrimEnd(s) ==
  IF s = <<>> THEN <<>>
  ELSE IF s[Len(s)] \in Whitespace THEN TrimEnd(SubSeq(s, 1, Len(s) - 1)) ELSE s

Trim(s) == TrimEnd(TrimStart(s))

\* parseInt(text): optional sign, then the longest prefix of digits; NaN (Null)
\* when there is no digit
DigitValue(c) ==
  CASE c = "0" -> 0 [] c = "1" -> 1 [] c = "2" -> 2 [] c = "3" -> 3
    [] c = "4" -> 4 [] c = "5" -> 5 [] c = "6" -> 6 [] c = "7" -> 7
    [] c = "8" -> 8 [] c = "9" -> 9 [] OTHER -> -1

RECURSIVE ParseDigits(_, _, _)
ParseDigits(s, acc, seen) ==
  IF s = <<>> \/ DigitValue(Head(s)) < 0
  THEN IF seen THEN Some(acc) ELSE Null
  ELSE ParseDigits(Tail(s), acc * 10 + DigitValue(Head(s)), TRUE)

parseInt(text) ==
  LET s == TrimStart(text) IN
  IF s # <<>> /\ Head(s) = "-"
  THEN LET m == ParseDigits(Tail(s), 0, FALSE) IN
       IF m = Null THEN Null ELSE Some(0 - Val(m))
  ELSE IF s # <<>> /\ Head(s) = "+" THEN ParseDigits(Tail(s), 0, FALSE)
  ELSE ParseDigits(s, 0, FALSE)

\* parseInt(e.target.value) || 0
ExpiryDaysInput(text) ==
  LET n == parseInt(text) IN
  IF n = Null \/ Val(n) = 0 THEN 0 ELSE Val(n)

IsEmptySubmission_noTrim(file, message) == file = Null /\ message = <<>>

\* !file && !message.trim()
IsEmptySubmission(file, message) == file = Null /\ Trim(message) = <<>>

\* const canSubmit = state.file || state.message.trim()
canSubmit(st) == st.file # Null \/ Trim(st.message) # <<>>

\* file.name.split('.').pop() || ''
FileExt(file) == file.name[Len(file.name)]

\* `${user.id}/${fileName}` with fileName = `${random}_${Date.now()}.${fileExt}`
FilePath(user, n, file) == <<user.id, <<n, FileExt(file)>> >>

\* state.expiryDays ? new Date(Date.now() + state.expiryDays * 24*60*60*1000) : null
ExpiryDate(expiryDays, t) ==
  IF expiryDays # 0 THEN Some(t + expiryDays * MsPerDay) ELSE Null

RowPath_keepsEmptyString(filePath) == filePath

\* path: filePath || null
RowPath(filePath) == IF filePath = EmptyPath THEN Null ELSE filePath

RowType_columnDefault(file) == "file_and_message"

\* type: file ? 'file_and_message' : 'message_only'
RowType(file) == IF file # Null THEN "file_and_message" ELSE "message_only"

\* name: file?.name || 'Message Only'
RowName(file) == IF file # Null THEN Val(file).name ELSE <<"Message Only">>

FinalRecipientEmail_noDefault(recipientEmail, user) == Some(recipientEmail)

\* recipientEmail || user.email
FinalRecipientEmail(recipientEmail, user) ==
  IF recipientEmail # "" THEN Some(recipientEmail) ELSE user.email

InsertRow_countsFromOne(file, message, recipientEmail, expiryDays, user, filePath, t) ==
  [ name            |-> RowName(file),
    path            |-> RowPath(filePath),
    recipient_email |-> FinalRecipientEmail(recipientEmail, user),
    expiry_date     |-> ExpiryDate(expiryDays, t),
    user_id         |-> user.id,
    download_count  |-> 1,
    message         |-> Trim(message),
    type            |-> RowType(file) ]

\* the object passed to .insert([...])
InsertRow(file, message, recipientEmail, expiryDays, user, filePath, t) ==
  [ name            |-> RowName(file),
    path            |-> RowPath(filePath),
    recipient_email |-> FinalRecipientEmail(recipientEmail, user),
    expiry_date     |-> ExpiryDate(expiryDays, t),
    user_id         |-> user.id,
    download_count  |-> 0,
    message         |-> Trim(message),
    type            |-> RowType(file) ]

\* error instanceof Error ? error.message : 'Error sending. Please try again.'
CatchMessage(err) ==
  IF err.instanceofError THEN err.message ELSE "Error sending. Please try again."

ThrowsAfterUpload_never(uploadError) == FALSE

\* if (uploadError) throw uploadError
ThrowsAfterUpload(uploadError) == uploadError # Null

\* if (dbError) { if (filePath) await remove([filePath]) ... }
RemovesAfterDbError(filePath) == filePath # EmptyPath

----------------------------------------------------------------------------
(* The public.files table *)

\* NOT NULL columns of the table definition; the migration drops NOT NULL of
\* path only
NotNullViolated(row) ==
  \/ row.name = Null
  \/ row.recipient_email = Null
  \/ row.expiry_date = Null

\* CHECK (type IN ('file_and_message', 'message_only'))
TypeCheck(row) == row.type \in {"file_and_message", "message_only"}

\* CONSTRAINT files_content_check
files_content_check(row) == row.path # Null \/ row.message # <<>>

\* policy "Users can insert their own files": with check (auth.uid() = user_id)
InsertPolicy(uid, row) == uid = row.user_id

InsertAccepted(uid, row) ==
  /\ ~NotNullViolated(row)
  /\ TypeCheck(row)
  /\ files_content_check(row)
  /\ InsertPolicy(uid, row)

\* the stored row: id and created_at take their defaults; the insert names no
\* view_count and no definition of the table gives that column a default
StoredRow(row, id, t) ==
  [ id              |-> id,
    name            |-> row.name,
    path            |-> row.path,
    recipient_email |-> row.recipient_email,
    expiry_date     |-> row.expiry_date,
    created_at      |-> t,
    download_count  |-> row.download_count,
    view_count      |-> Null,
    user_id         |-> row.user_id,
    message         |-> row.message,
    type            |-> row.type ]

----------------------------------------------------------------------------
(* State *)

VARIABLES
  ticks,        \* the clock
  filesTable,   \* rows of public.files
  nextId,       \* next id handed out by uuid_generate_v4()
  storage,      \* paths of the objects in the bucket
  page,         \* App: the route whose component is mounted
  session,      \* the principal the supabase client is signed in as
  state,        \* FileUpload: the form state
  sub,          \* FileUpload: the running handleSubmit
  sub2,         \* FileUpload: a second handleSubmit started while the first awaits
  list,         \* FileList: the component state
  listOp,       \* FileList: the running handler
  listOp2,      \* FileList: a second handler started while the first awaits
  dash,         \* Dashboard: the component state
  dashOp        \* Dashboard: the running handler

vars == <<ticks, filesTable, nextId, storage, page, session, state, sub, sub2,
          list, listOp, listOp2, dash, dashOp>>

backend == <<ticks, filesTable, nextId, storage>>
uploadPage == <<state, sub, sub2>>
listPage == <<list, listOp, listOp2>>
dashPage == <<dash, dashOp>>

Now == ticks * TickMs

InitialState ==
  [ file |-> Null, recipientEmail |-> "", expiryDays |-> DefaultExpiryDays,
    uploading |-> FALSE, error |-> Null, success |-> FALSE, message |-> <<>> ]

IdleSubmit ==
  [ pc |-> "idle", file |-> Null, message |-> <<>>, recipientEmail |-> "",
    expiryDays |-> 0, user |-> Null, filePath |-> EmptyPath,
    uploadError |-> Null, row |-> Null, dbError |-> Null, result |-> "none" ]

InitialList ==
  [ files |-> <<>>, loading |-> TRUE, deleting |-> Null, error |-> Null,
    deleteSuccess |-> Null, fileToDelete |-> Null ]

\* useState<DashboardStats>({totalFiles: 0, activeTransfers: 0, totalDownloads: 0})
InitialStats == [ totalFiles |-> 0, activeTransfers |-> 0, totalDownloads |-> 0 ]

InitialDash ==
  [ files |-> <<>>, loading |-> TRUE, fileToDelete |-> Null, isDeleting |-> FALSE,
    error |-> Null, success |-> Null, stats |-> InitialStats, statsLoading |-> TRUE,
    sortField |-> "created_at", sortOrder |-> "desc" ]

IdleOp == [ pc |-> "idle", file |-> Null, basis |-> 0, signedUrl |-> Null ]

Init ==
  /\ ticks = 0
  /\ filesTable = {}
  /\ nextId = 1
  /\ storage = {}
  /\ page = "/upload"
  /\ session = User1
  /\ state = InitialState
  /\ sub = IdleSubmit
  /\ sub2 = IdleSubmit
  /\ list = InitialList
  /\ listOp = IdleOp
  /\ listOp2 = IdleOp
  /\ dash = InitialDash
  /\ dashOp = IdleOp

----------------------------------------------------------------------------
(* FileUpload: editing the form *)

\* validateFile
validateFile(file) ==
  IF file.size > MAX_FILE_SIZE THEN Some("File size exceeds 50MB limit") ELSE Null

handleFileChange(F) ==
  /\ page = "/upload"
  /\ \E f \in F :
       state' = IF validateFile(f) # Null
                THEN [state EXCEPT !.error = validateFile(f), !.file = Null]
                ELSE [state EXCEPT !.file = Some(f), !.error = Null]
  /\ UNCHANGED <<backend, page, session, sub, sub2, listPage, dashPage>>

clearFileSelection ==
  /\ page = "/upload"
  /\ state.file # Null
  /\ state' = [state EXCEPT !.file = Null, !.error = Null, !.success = FALSE]
  /\ UNCHANGED <<backend, page, session, sub, sub2, listPage, dashPage>>

handleMessageChange(M) ==
  /\ page = "/upload"
  /\ \E m \in M :
       /\ m # state.message
       /\ state' = [state EXCEPT !.message = m, !.error = Null]
  /\ UNCHANGED <<backend, page, session, sub, sub2, listPage, dashPage>>

handleRecipientChange(R) ==
  /\ page = "/upload"
  /\ \E r \in R :
       /\ r # state.recipientEmail
       /\ state' = [state EXCEPT !.recipientEmail = r]
  /\ UNCHANGED <<backend, page, session, sub, sub2, listPage, dashPage>>

handleExpiryChange(T) ==
  /\ page = "/upload"
  /\ \E text \in T :
       /\ ExpiryDaysInput(text) # state.expiryDays
       /\ state' = [state EXCEPT !.expiryDays = ExpiryDaysInput(text)]
  /\ UNCHANGED <<backend, page, session, sub, sub2, listPage, dashPage>>

handleCancel ==
  /\ page = "/upload"
  /\ state' = [state EXCEPT !.file = Null, !.error = Null, !.message = <<>>,
                            !.success = FALSE, !.recipientEmail = "",
                            !.expiryDays = DefaultExpiryDays, !.uploading = FALSE]
  /\ state' # state
  /\ UNCHANGED <<backend, page, session, sub, sub2, listPage, dashPage>>

----------------------------------------------------------------------------
(* FileUpload: handleSubmit *)

\* Variant: the catch block leaves uploading as it is
SubmitCatch_keepsUploading(op, err, s) ==
  /\ state' = [state EXCEPT !.error = Some(CatchMessage(err))]
  /\ op' = [s EXCEPT !.pc = "done", !.result = "error"]

\* catch (error) { setState(prev => ({...prev, uploading: false, error: ...})) }
SubmitCatch(op, err, s) ==
  /\ state' = [state EXCEPT !.uploading = FALSE, !.error = Some(CatchMessage(err))]
  /\ op' = [s EXCEPT !.pc = "done", !.result = "error"]

\* handleSubmit runs in the slot op. The submit event: validation, then
\* setState(uploading: true) and getUser(). The submit button is disabled
\* while state.uploading.
handleSubmit_validate(op, other) ==
  /\ page = "/upload"
  /\ op.pc \in {"idle", "done"}
  /\ ~state.uploading
  /\ IF IsEmptySubmission(state.file, state.message)
     THEN /\ state' = [state EXCEPT !.error =
                         Some("Please either select a file to upload or enter a message")]
          /\ op' = [IdleSubmit EXCEPT !.pc = "done", !.result = "rejected",
                                       !.message = state.message]
     ELSE /\ state' = [state EXCEPT !.uploading = TRUE, !.error = Null]
          /\ op' = [IdleSubmit EXCEPT !.pc = "getUser", !.file = state.file,
                                       !.message = state.message,
                                       !.recipientEmail = state.recipientEmail,
                                       !.expiryDays = state.expiryDays]
  /\ UNCHANGED <<backend, page, session, other, listPage, dashPage>>

\* the insert request as issued at instant Now
IssueInsert(s) ==
  [s EXCEPT !.pc = "insert",
            !.row = Some(InsertRow(s.file, s.message, s.recipientEmail,
                                   s.expiryDays, Val(s.user), s.filePath, Now))]

\* supabase.auth.getUser() resolves
handleSubmit_getUser(op, other) ==
  /\ page = "/upload"
  /\ op.pc = "getUser"
  /\ \E u \in {Null, Some(session)} :
       IF u = Null
       THEN SubmitCatch(op, NotAuthenticated, op)
       ELSE /\ UNCHANGED state
            /\ IF op.file # Null
               THEN \E n \in Names :
                      op' = [op EXCEPT !.pc = "upload", !.user = u,
                                !.filePath = FilePath(Val(u), n, Val(op.file))]
               ELSE op' = IssueInsert([op EXCEPT !.user = u])
  /\ UNCHANGED <<backend, page, session, other, listPage, dashPage>>

\* storage.upload(filePath, file, {upsert: false}) resolves
handleSubmit_upload(op, other) ==
  /\ page = "/upload"
  /\ op.pc = "upload"
  /\ \E err \in {Null, Some(UploadFailed)} :
       /\ op.filePath \in storage => err # Null
       /\ storage' = IF err = Null THEN storage \cup {op.filePath} ELSE storage
       /\ IF ThrowsAfterUpload(err)
          THEN SubmitCatch(op, UploadFailed, [op EXCEPT !.uploadError = err])
          ELSE /\ op' = IssueInsert([op EXCEPT !.uploadError = err])
               /\ UNCHANGED state
  /\ UNCHANGED <<ticks, filesTable, nextId, page, session, other, listPage, dashPage>>

\* from('files').insert([row]) resolves
handleSubmit_insert(op, other, maxRows) ==
  /\ page = "/upload"
  /\ op.pc = "insert"
  /\ \E err \in {Null, Some(InsertFailed), Some(ConstraintViolation)} :
       /\ err = Some(ConstraintViolation)
            <=> ~InsertAccepted(Val(op.user).id, Val(op.row))
       /\ err = Null => nextId <= maxRows
       /\ IF err = Null
          THEN /\ filesTable' = filesTable \cup {StoredRow(Val(op.row), nextId, Now)}
               /\ nextId' = nextId + 1
               /\ state' = [state EXCEPT !.uploading = FALSE, !.success = TRUE,
                                         !.file = Null, !.recipientEmail = "",
                                         !.message = <<>>, !.error = Null,
                                         !.expiryDays = DefaultExpiryDays]
               /\ op' = [op EXCEPT !.pc = "done", !.result = "success"]
          ELSE /\ UNCHANGED <<filesTable, nextId>>
               /\ IF RemovesAfterDbError(op.filePath)
                  THEN /\ op' = [op EXCEPT !.pc = "remove", !.dbError = err]
                       /\ UNCHANGED state
                  ELSE SubmitCatch(op, Val(err), [op EXCEPT !.dbError = err])
  /\ UNCHANGED <<ticks, storage, page, session, other, listPage, dashPage>>

\* the compensating storage.remove([filePath]) resolves; its result is not read
handleSubmit_remove(op, other) ==
  /\ page = "/upload"
  /\ op.pc = "remove"
  /\ \E removed \in BOOLEAN :
       storage' = IF removed THEN storage \ {op.filePath} ELSE storage
  /\ SubmitCatch(op, Val(op.dbError), op)
  /\ UNCHANGED <<ticks, filesTable, nextId, page, session, other, listPage, dashPage>>

----------------------------------------------------------------------------
(* Backend requests of the views *)

LIMIT == 6
SIGNED_URL_SECONDS == 3600

\* the URL storage.createSignedUrl(path, expiresIn) returns: it names the
\* object and carries its validity in seconds
createSignedUrl(path, expiresIn) == [ path |-> path, expiresIn |-> expiresIn ]

ListFailed == [instanceofError |-> TRUE, message |-> "list failed"]
SignFailed == [instanceofError |-> TRUE, message |-> "sign failed"]
DownloadFailed == [instanceofError |-> TRUE, message |-> "download failed"]
ClipboardDenied == [instanceofError |-> TRUE, message |-> "clipboard denied"]
UpdateFailed == [instanceofError |-> FALSE, message |-> "update failed"]
NotFoundInStorage == [instanceofError |-> TRUE, message |-> "File not found in storage"]
NoSignedUrl == [instanceofError |-> TRUE, message |-> "Failed to generate signed URL"]

\* Variant: no row level security, every row passes
RowPolicy_open(uid, r) == TRUE

\* policies "Users can view / update / delete their own files"
RowPolicy(uid, r) == uid = r.user_id

\* the sequences that list every element of S once
Perms(S) ==
  {f \in [1..Cardinality(S) -> S] : \A i, j \in 1..Cardinality(S) : i # j => f[i] # f[j]}

\* Variant: the select leaves out the rows whose expiry_date has passed
SelectFiles_unexpired(table, uid) ==
  LET rows == {r \in table : /\ RowPolicy(uid, r) /\ r.user_id = uid
                              /\ (r.expiry_date = Null \/ Val(r.expiry_date) >= ticks * TickMs)} IN
  {f \in Perms(rows) : \A i \in 1..(Cardinality(rows) - 1) :
                          f[i].created_at >= f[i + 1].created_at}

\* select('*').eq('user_id', user.id).order('created_at', {ascending: false})
SelectFiles(table, uid) ==
  LET rows == {r \in table : RowPolicy(uid, r) /\ r.user_id = uid} IN
  {f \in Perms(rows) : \A i \in 1..(Cardinality(rows) - 1) :
                          f[i].created_at >= f[i + 1].created_at}

\* .limit(6)
Limit(f, n) == IF Len(f) <= n THEN f ELSE SubSeq(f, 1, n)

\* storage.list(path.split('/')[0], {limit: 1, offset: 0, search: path.split('/')[1]})
StorageList(path) == {p \in storage : p[1] = path[1] /\ p[2] = path[2]}

\* Variant: the update is an increment done by the database
UpdateDownloadCount_increment(uid, id, n) ==
  {IF r.id = id /\ RowPolicy(uid, r)
     THEN [r EXCEPT !.download_count = r.download_count + 1] ELSE r
     : r \in filesTable}

\* Variant: the update sends the whole row and blanks the message
UpdateDownloadCount_wholeRow(uid, id, n) ==
  {IF r.id = id /\ RowPolicy(uid, r)
     THEN [r EXCEPT !.download_count = n, !.message = <<>>] ELSE r
     : r \in filesTable}

\* from('files').update(changes).eq('id', id), as the table applies it
UpdateDownloadCount(uid, id, n) ==
  {IF r.id = id /\ RowPolicy(uid, r) THEN [r EXCEPT !.download_count = n] ELSE r
     : r \in filesTable}

\* Variant: the preview's update writes both counters
UpdateViewCount_bothCounters(uid, id, n) ==
  {IF r.id = id /\ RowPolicy(uid, r)
     THEN [r EXCEPT !.view_count = Some(n), !.download_count = n] ELSE r
     : r \in filesTable}

UpdateViewCount(uid, id, n) ==
  {IF r.id = id /\ RowPolicy(uid, r) THEN [r EXCEPT !.view_count = Some(n)] ELSE r
     : r \in filesTable}

\* from('files').delete().eq('id', id), as the table applies it
DeleteRow(uid, id) == {r \in filesTable : ~(r.id = id /\ RowPolicy(uid, r))}

\* prev.filter(f => f.id !== file.id)
RECURSIVE FilterOut(_, _)
FilterOut(f, id) ==
  IF f = <<>> THEN <<>>
  ELSE IF Head(f).id = id THEN FilterOut(Tail(f), id)
       ELSE <<Head(f)>> \o FilterOut(Tail(f), id)

\* files.find(f => f.id === fileId)
RECURSIVE Find(_, _)
Find(f, id) ==
  IF f = <<>> THEN Null
  ELSE IF Head(f).id = id THEN Some(Head(f)) ELSE Find(Tail(f), id)

\* x || 0 for a stored counter that may be null
OrZero(c) == IF c = Null \/ Val(c) = 0 THEN 0 ELSE Val(c)

----------------------------------------------------------------------------
(* App: routes *)

Routes == {"/", "/upload", "/files"}

NoHandlerRunning ==
  /\ sub.pc \in {"idle", "done"}
  /\ sub2.pc \in {"idle", "done"}
  /\ listOp.pc = "idle"
  /\ listOp2.pc = "idle"
  /\ dashOp.pc = "idle"

\* a route change unmounts the component of the old route and mounts the
\* component of the new one in its initial state
Navigate ==
  /\ NoHandlerRunning
  /\ \E p \in Routes : p # page /\ page' = p
  /\ state' = InitialState
  /\ sub' = IdleSubmit
  /\ sub2' = IdleSubmit
  /\ list' = InitialList
  /\ dash' = InitialDash
  /\ UNCHANGED <<backend, session, listOp, listOp2, dashOp>>

\* another principal of P signs in (onAuthStateChange -> setUser): while user
\* is null the routes render <Navigate to="/login" />, and after the sign-in
\* the login route renders <Navigate to="/" />, so every component is new
SwitchAccount(P) ==
  /\ NoHandlerRunning
  /\ \E u \in P : u # session /\ session' = u
  /\ page' = "/"
  /\ state' = InitialState
  /\ sub' = IdleSubmit
  /\ sub2' = IdleSubmit
  /\ list' = InitialList
  /\ dash' = InitialDash
  /\ UNCHANGED <<backend, listOp, listOp2, dashOp>>

----------------------------------------------------------------------------
(* FileList *)

\* err instanceof Error ? err.message : fallback
MessageOr(err, fallback) == IF err.instanceofError THEN err.message ELSE fallback

\* what one run of fetchFiles leaves in the component state
fetchFilesResults(l, table) ==
  {[l EXCEPT !.loading = FALSE]}
    \cup {[l EXCEPT !.loading = FALSE, !.error = Some("Failed to fetch files")]}
    \cup {[l EXCEPT !.loading = FALSE, !.files = f] : f \in SelectFiles(table, session.id)}

\* useEffect(() => { fetchFiles(); }, [])
fetchFiles ==
  /\ page = "/files"
  /\ list.loading
  /\ list' \in fetchFilesResults(list, filesTable)
  /\ UNCHANGED <<backend, page, session, uploadPage, listOp, listOp2, dashPage>>

\* the timer that clears deleteSuccess after 3 seconds
FileList_clearDeleteSuccess ==
  /\ page = "/files"
  /\ list.deleteSuccess # Null
  /\ list' = [list EXCEPT !.deleteSuccess = Null]
  /\ UNCHANGED <<backend, page, session, uploadPage, listOp, listOp2, dashPage>>

\* the files the list view renders
ListedFiles == {list.files[i] : i \in DOMAIN list.files}

\* handleDeleteClick(file), file drawn from F
FileList_handleDeleteClick(F) ==
  /\ page = "/files" /\ ~list.loading
  /\ list.fileToDelete = Null
  /\ \E file \in F :
       list' = [list EXCEPT !.fileToDelete = Some(file)]
  /\ UNCHANGED <<backend, page, session, uploadPage, listOp, listOp2, dashPage>>

\* the dialog's Cancel button: disabled={isDeleting}
FileList_handleDeleteCancel ==
  /\ page = "/files"
  /\ list.fileToDelete # Null
  /\ list.deleting # Some(Val(list.fileToDelete).id)
  /\ list' = [list EXCEPT !.fileToDelete = Null]
  /\ UNCHANGED <<backend, page, session, uploadPage, listOp, listOp2, dashPage>>

FileList_storageErrorThrows_never(storageError) == FALSE

\* if (storageError) { throw storageError; }
FileList_storageErrorThrows(storageError) == storageError # Null

\* if (dbError) { throw dbError; }
FileList_dbErrorThrows(dbError) == dbError # Null

\* generateShareableLink: catch (err) { setError(...) } finally { setDeleting(null) }
FileList_catch(op, err, fallback) ==
  /\ list' = [list EXCEPT !.error = Some(MessageOr(err, fallback)),
                          !.deleting = Null]
  /\ op' = IdleOp

\* handleDelete: catch (err) { setError(...) } finally { setDeleting(null) },
\* and the setFileToDelete(null) of handleDeleteConfirm
FileList_handleDelete_catch(err) ==
  /\ list' = [list EXCEPT !.error = Some(MessageOr(err, "Error deleting file")),
                          !.deleting = Null, !.fileToDelete = Null]
  /\ listOp' = IdleOp

\* handleDeleteConfirm -> handleDelete(fileToDelete): setDeleting, setError(null)
FileList_handleDelete_start ==
  /\ page = "/files"
  /\ listOp.pc = "idle"
  /\ list.fileToDelete # Null
  /\ list.deleting # Some(Val(list.fileToDelete).id)
  /\ LET file == Val(list.fileToDelete) IN
       /\ list' = [list EXCEPT !.deleting = Some(file.id), !.error = Null]
       /\ listOp' = [IdleOp EXCEPT !.file = Some(file),
                       !.pc = IF file.path # Null THEN "delete_remove"
                                                   ELSE "delete_row"]
  /\ UNCHANGED <<backend, page, session, uploadPage, listOp2, dashPage>>

\* storage.remove([file.path]) resolves
FileList_handleDelete_remove ==
  /\ listOp.pc = "delete_remove"
  /\ \E err \in {Null, Some(RemoveFailed)} :
       /\ storage' = IF err = Null THEN storage \ {Val(listOp.file).path} ELSE storage
       /\ IF FileList_storageErrorThrows(err)
          THEN FileList_handleDelete_catch(RemoveFailed)
          ELSE /\ listOp' = [listOp EXCEPT !.pc = "delete_row"]
               /\ UNCHANGED list
  /\ UNCHANGED <<ticks, filesTable, nextId, page, session, uploadPage, listOp2, dashPage>>

\* from('files').delete().eq('id', file.id) resolves
FileList_handleDelete_row ==
  /\ listOp.pc = "delete_row"
  /\ \E err \in {Null, Some(DeleteFailed)} :
       /\ filesTable' = IF err = Null THEN DeleteRow(session.id, Val(listOp.file).id)
                                       ELSE filesTable
       /\ IF FileList_dbErrorThrows(err)
          THEN FileList_handleDelete_catch(DeleteFailed)
          ELSE
            /\ list' = [list EXCEPT
                 !.files = FilterOut(list.files, Val(listOp.file).id),
                 !.deleteSuccess = Some("has been deleted"),
                 !.deleting = Null, !.fileToDelete = Null]
            /\ listOp' = IdleOp
  /\ UNCHANGED <<ticks, nextId, storage, page, session, uploadPage, listOp2, dashPage>>

\* generateShareableLink(file.id, file.path): if (!path) return; setDeleting(fileId).
\* The handler runs in the slot op, which keeps the argument of a call that
\* returned at once; cap bounds the counter values explored and F is the set
\* the argument is drawn from.
generateShareableLink_start(op, other, cap, F) ==
  /\ page = "/files" /\ ~list.loading
  /\ op.pc = "idle"
  /\ \E file \in F :
       IF file.path = Null
       THEN /\ op' = [IdleOp EXCEPT !.file = Some(file)]   \* returned at once
            /\ UNCHANGED list
       ELSE
         /\ file.download_count < cap
         /\ list' = [list EXCEPT !.deleting = Some(file.id)]
         /\ op' = [IdleOp EXCEPT !.pc = "link_check", !.file = Some(file),
                      !.basis = IF Find(list.files, file.id) = Null THEN 0
                                ELSE Val(Find(list.files, file.id)).download_count]
  /\ UNCHANGED <<backend, page, session, uploadPage, other, dashPage>>

\* storage.list(...) resolves
generateShareableLink_check(op, other) ==
  /\ op.pc = "link_check"
  /\ \E err \in {Null, Some(ListFailed)} :
       IF err # Null
       THEN FileList_catch(op, ListFailed, "Error generating shareable link")
       ELSE IF StorageList(Val(op.file).path) = {}
       THEN FileList_catch(op, NotFoundInStorage, "Error generating shareable link")
       ELSE /\ op' = [op EXCEPT !.pc = "link_sign"]
            /\ UNCHANGED list
  /\ UNCHANGED <<backend, page, session, uploadPage, other, dashPage>>

\* Variant: an entry whose expiry_date has passed gets no signed URL
generateShareableLink_sign_refusesExpired(op, other) ==
  /\ op.pc = "link_sign"
  /\ \E res \in {"error", "empty", "url"} :
       /\ Val(op.file).path \notin storage => res = "error"
       /\ (Val(op.file).expiry_date # Null /\ Val(Val(op.file).expiry_date) < Now)
            => res = "error"
       /\ IF res = "error"
          THEN FileList_catch(op, SignFailed, "Error generating shareable link")
          ELSE IF res = "empty"
          THEN FileList_catch(op, NoSignedUrl, "Error generating shareable link")
          ELSE /\ op' = [op EXCEPT !.pc = "link_copy",
                           !.signedUrl = Some(createSignedUrl(Val(op.file).path,
                                                              SIGNED_URL_SECONDS))]
               /\ UNCHANGED list
  /\ UNCHANGED <<backend, page, session, uploadPage, other, dashPage>>

\* storage.createSignedUrl(path, 3600) resolves
generateShareableLink_sign(op, other) ==
  /\ op.pc = "link_sign"
  /\ \E res \in {"error", "empty", "url"} :
       /\ Val(op.file).path \notin storage => res = "error"
       /\ IF res = "error"
          THEN FileList_catch(op, SignFailed, "Error generating shareable link")
          ELSE IF res = "empty"
          THEN FileList_catch(op, NoSignedUrl, "Error generating shareable link")
          ELSE /\ op' = [op EXCEPT !.pc = "link_copy",
                           !.signedUrl = Some(createSignedUrl(Val(op.file).path,
                                                              SIGNED_URL_SECONDS))]
               /\ UNCHANGED list
  /\ UNCHANGED <<backend, page, session, uploadPage, other, dashPage>>

\* navigator.clipboard.writeText(data.signedUrl) resolves; the update is issued
generateShareableLink_copy(op, other) ==
  /\ op.pc = "link_copy"
  /\ \E ok \in BOOLEAN :
       IF ~ok
       THEN FileList_catch(op, ClipboardDenied, "Error generating shareable link")
       ELSE /\ list' = [list EXCEPT !.deleteSuccess = Some("Link copied to clipboard")]
            /\ op' = [op EXCEPT !.pc = "link_update"]
  /\ UNCHANGED <<backend, page, session, uploadPage, other, dashPage>>

\* update({download_count: basis + 1}).eq('id', fileId) resolves; on success
\* fetchFiles() refreshes the list
generateShareableLink_update(op, other) ==
  /\ op.pc = "link_update"
  /\ \E err \in {Null, Some(UpdateFailed)} :
       IF err # Null
       THEN /\ op' = [op EXCEPT !.pc = "link_logged"]
            /\ UNCHANGED <<filesTable, list>>
       ELSE /\ filesTable' = UpdateDownloadCount(session.id, Val(op.file).id,
                                                  op.basis + 1)
            /\ \E l \in fetchFilesResults(list, filesTable') :
                 list' = [l EXCEPT !.deleting = Null]
            /\ op' = IdleOp
  /\ UNCHANGED <<ticks, nextId, storage, page, session, uploadPage, other, dashPage>>

\* Variant: the failed counter update is thrown to the catch block
generateShareableLink_logged_thrown(op, other) ==
  /\ op.pc = "link_logged"
  /\ FileList_catch(op, UpdateFailed, "Error generating shareable link")
  /\ UNCHANGED <<backend, page, session, uploadPage, other, dashPage>>

\* generateShareableLink: console.error('Error updating download count:',
\* updateError); finally setDeleting(null)
generateShareableLink_logged(op, other) ==
  /\ op.pc = "link_logged"
  /\ list' = [list EXCEPT !.deleting = Null]
  /\ op' = IdleOp
  /\ UNCHANGED <<backend, page, session, uploadPage, other, dashPage>>

\* downloadFile(file): storage.download(file.path ?? '')
downloadFile_start ==
  /\ page = "/files" /\ ~list.loading
  /\ listOp.pc = "idle"
  /\ \E i \in DOMAIN list.files :
       /\ list.files[i].download_count < MaxCount
       /\ listOp' = [IdleOp EXCEPT !.pc = "download", !.file = Some(list.files[i]),
                                   !.basis = list.files[i].download_count]
  /\ UNCHANGED <<backend, page, session, uploadPage, list, listOp2, dashPage>>

\* storage.download(...) resolves; on error alert(...), else the update is issued
downloadFile_download ==
  /\ listOp.pc = "download"
  /\ \E err \in {Null, Some(DownloadFailed)} :
       /\ Val(listOp.file).path \notin storage => err # Null
       /\ listOp' = IF err # Null THEN IdleOp ELSE [listOp EXCEPT !.pc = "download_update"]
  /\ UNCHANGED <<backend, page, session, uploadPage, list, listOp2, dashPage>>

\* update({download_count: file.download_count + 1}).eq('id', file.id) resolves
downloadFile_update ==
  /\ listOp.pc = "download_update"
  /\ \E err \in {Null, Some(UpdateFailed)} :
       IF err # Null
       THEN UNCHANGED <<filesTable, list>>
       ELSE /\ filesTable' = UpdateDownloadCount(session.id, Val(listOp.file).id,
                                                  listOp.basis + 1)
            /\ list' \in fetchFilesResults(list, filesTable')
  /\ listOp' = IdleOp
  /\ UNCHANGED <<ticks, nextId, storage, page, session, uploadPage, listOp2, dashPage>>

----------------------------------------------------------------------------
(* Dashboard (recent files) *)

\* what one run of fetchDashboardData leaves in the component state
fetchDashboardDataResults(d, table) ==
  {[d EXCEPT !.loading = FALSE]}
    \cup {[d EXCEPT !.loading = FALSE, !.files = Limit(f, LIMIT)]
             : f \in SelectFiles(table, session.id)}

\* rows a select without a filter returns to uid: row level security only
VisibleRows(table, uid) == {r \in table : RowPolicy(uid, r)}

RECURSIVE SumDownloads(_)
SumDownloads(rows) ==
  IF rows = {} THEN 0
  ELSE LET r == CHOOSE x \in rows : TRUE IN
       r.download_count + SumDownloads(rows \ {r})

\* Variant: an evaluator that answers only for the first run after the mount
IsActive_firstRunOnly(r, now) ==
  dash.statsLoading /\ r.expiry_date # Null /\ Val(r.expiry_date) >= now

\* .gte('expiry_date', new Date().toISOString()): a row passes the filter when
\* its expiry_date is not null and not before now (a null never compares)
IsActive(r, now) == r.expiry_date # Null /\ Val(r.expiry_date) >= now

\* what one run of fetchDashboardStats leaves in stats: each of the three
\* selects yields its result or, on an error, null, which is read as 0
fetchDashboardStatsResults(table, uid, now) ==
  LET rows == VisibleRows(table, uid)
      active == {r \in rows : IsActive(r, now)}
  IN  [ totalFiles : {Cardinality(rows), 0},
        activeTransfers : {Cardinality(active), 0},
        totalDownloads : {SumDownloads(rows), 0} ]

\* useEffect(() => { fetchDashboardStats(); }, [])
fetchDashboardStats ==
  /\ page = "/"
  /\ dash.statsLoading
  /\ \E st \in fetchDashboardStatsResults(filesTable, session.id, Now) :
       dash' = [dash EXCEPT !.stats = st, !.statsLoading = FALSE]
  /\ UNCHANGED <<backend, page, session, uploadPage, listPage, dashOp>>

\* type SortField, without 'size': the size is metadata of the stored object,
\* which the rows of the model do not carry
SortFields == {"created_at", "name", "view_count", "download_count"}

\* a.name.localeCompare(b.name) over the names an entry can have:
\* "a.txt" < "b.bin" < "Message Only"
NameRank(name) ==
  IF name = SmallFile.name THEN 1 ELSE IF name = HugeFile.name THEN 2 ELSE 3

localeCompare(a, b) == NameRank(a) - NameRank(b)

\* the comparator of the sort effect
Comparison(a, b, field, order) ==
  LET comparison ==
        CASE field = "name" -> localeCompare(a.name, b.name)
          [] field = "view_count" -> OrZero(a.view_count) - OrZero(b.view_count)
          [] field = "download_count" ->
               OrZero(Some(a.download_count)) - OrZero(Some(b.download_count))
          [] OTHER -> a.created_at - b.created_at
  IN  IF order = "asc" THEN comparison ELSE 0 - comparison

\* Array.prototype.sort is stable: x goes behind the elements it does not
\* precede
RECURSIVE SortInsert(_, _, _, _)
SortInsert(g, x, field, order) ==
  IF g = <<>> THEN <<x>>
  ELSE IF Comparison(g[Len(g)], x, field, order) <= 0 THEN Append(g, x)
       ELSE Append(SortInsert(SubSeq(g, 1, Len(g) - 1), x, field, order), g[Len(g)])

RECURSIVE SortFiles(_, _, _)
SortFiles(f, field, order) ==
  IF f = <<>> THEN <<>>
  ELSE SortInsert(SortFiles(SubSeq(f, 1, Len(f) - 1), field, order),
                  f[Len(f)], field, order)

\* handleSort(field), then the effect on [sortField, sortOrder]:
\* setFiles([...files].sort(...))
handleSort(F) ==
  /\ page = "/" /\ ~dash.loading
  /\ \E field \in F :
       LET order == IF field = dash.sortField
                    THEN (IF dash.sortOrder = "asc" THEN "desc" ELSE "asc")
                    ELSE "desc"
       IN  dash' = [dash EXCEPT !.sortField = field, !.sortOrder = order,
                                !.files = SortFiles(dash.files, field, order)]
  /\ UNCHANGED <<backend, page, session, uploadPage, listPage, dashOp>>

\* useEffect(() => { fetchDashboardData(); }, [])
fetchDashboardData ==
  /\ page = "/"
  /\ dash.loading
  /\ dash' \in fetchDashboardDataResults(dash, filesTable)
  /\ UNCHANGED <<backend, page, session, uploadPage, listPage, dashOp>>

\* the timer that clears the notifications after 3 seconds
Dashboard_clearNotifications ==
  /\ page = "/"
  /\ dash.error # Null \/ dash.success # Null
  /\ dash' = [dash EXCEPT !.error = Null, !.success = Null]
  /\ UNCHANGED <<backend, page, session, uploadPage, listPage, dashOp>>

Dashboard_handleDeleteClick ==
  /\ page = "/" /\ ~dash.loading
  /\ dash.fileToDelete = Null
  /\ \E i \in DOMAIN dash.files :
       dash' = [dash EXCEPT !.fileToDelete = Some(dash.files[i])]
  /\ UNCHANGED <<backend, page, session, uploadPage, listPage, dashOp>>

\* the dialog's onClose: setFileToDelete(null); setIsDeleting(false)
Dashboard_handleDeleteClose ==
  /\ page = "/"
  /\ dash.fileToDelete # Null
  /\ ~dash.isDeleting
  /\ dash' = [dash EXCEPT !.fileToDelete = Null, !.isDeleting = FALSE]
  /\ UNCHANGED <<backend, page, session, uploadPage, listPage, dashOp>>

\* if (storageError) throw storageError
Dashboard_storageErrorThrows(storageError) == storageError # Null

\* if (dbError) throw dbError
Dashboard_dbErrorThrows(dbError) == dbError # Null

\* catch (err) { setError(message) }
Dashboard_catch(message) ==
  /\ dash' = [dash EXCEPT !.error = Some(message)]
  /\ dashOp' = IdleOp

\* handleDelete: catch (err) { setError(...) } finally { setIsDeleting(false) }
Dashboard_handleDelete_catch ==
  /\ dash' = [dash EXCEPT !.error = Some("Failed to delete file"),
                          !.isDeleting = FALSE]
  /\ dashOp' = IdleOp

\* handleDelete: if (!fileToDelete) return; setIsDeleting(true)
Dashboard_handleDelete_start ==
  /\ page = "/"
  /\ dashOp.pc = "idle"
  /\ dash.fileToDelete # Null
  /\ ~dash.isDeleting
  /\ LET file == Val(dash.fileToDelete) IN
       /\ dash' = [dash EXCEPT !.isDeleting = TRUE]
       /\ dashOp' = [IdleOp EXCEPT !.file = Some(file),
                       !.pc = IF file.path # Null THEN "delete_remove"
                                                   ELSE "delete_row"]
  /\ UNCHANGED <<backend, page, session, uploadPage, listPage>>

\* storage.remove([fileToDelete.path]) resolves
Dashboard_handleDelete_remove ==
  /\ dashOp.pc = "delete_remove"
  /\ \E err \in {Null, Some(RemoveFailed)} :
       /\ storage' = IF err = Null THEN storage \ {Val(dashOp.file).path} ELSE storage
       /\ IF Dashboard_storageErrorThrows(err)
          THEN Dashboard_handleDelete_catch
          ELSE /\ dashOp' = [dashOp EXCEPT !.pc = "delete_row"]
               /\ UNCHANGED dash
  /\ UNCHANGED <<ticks, filesTable, nextId, page, session, uploadPage, listPage>>

\* from('files').delete().eq('id', fileToDelete.id) resolves; on success the
\* list is filtered and fetchDashboardData() refreshes it
Dashboard_handleDelete_row ==
  /\ dashOp.pc = "delete_row"
  /\ \E err \in {Null, Some(DeleteFailed)} :
       /\ filesTable' = IF err = Null THEN DeleteRow(session.id, Val(dashOp.file).id)
                                       ELSE filesTable
       /\ IF Dashboard_dbErrorThrows(err)
          THEN Dashboard_handleDelete_catch
          ELSE
            /\ \E d \in fetchDashboardDataResults(
                          [dash EXCEPT !.success = Some("File deleted successfully"),
                                       !.files = FilterOut(dash.files, Val(dashOp.file).id),
                                       !.fileToDelete = Null],
                          filesTable') :
                 dash' = [d EXCEPT !.isDeleting = FALSE]
            /\ dashOp' = IdleOp
  /\ UNCHANGED <<ticks, nextId, storage, page, session, uploadPage, listPage>>

\* handlePreview(file): storage.download(file.path)
handlePreview_start ==
  /\ page = "/" /\ ~dash.loading
  /\ dashOp.pc = "idle"
  /\ \E i \in DOMAIN dash.files :
       LET file == dash.files[i] IN
       IF file.path = Null
       THEN /\ dash' = [dash EXCEPT !.error = Some("No file to preview")]
            /\ UNCHANGED dashOp
       ELSE /\ OrZero(file.view_count) < MaxCount
            /\ dashOp' = [IdleOp EXCEPT !.pc = "preview", !.file = Some(file),
                                        !.basis = OrZero(file.view_count)]
            /\ UNCHANGED dash
  /\ UNCHANGED <<backend, page, session, uploadPage, listPage>>

\* storage.download(...) resolves; the preview is shown and the update issued
handlePreview_download ==
  /\ dashOp.pc = "preview"
  /\ \E err \in {Null, Some(DownloadFailed)} :
       /\ Val(dashOp.file).path \notin storage => err # Null
       /\ IF err # Null
          THEN Dashboard_catch("Failed to load file preview")
          ELSE /\ dashOp' = [dashOp EXCEPT !.pc = "preview_update"]
               /\ UNCHANGED dash
  /\ UNCHANGED <<backend, page, session, uploadPage, listPage>>

\* update({view_count: (file.view_count || 0) + 1}).eq('id', file.id) resolves
handlePreview_update ==
  /\ dashOp.pc = "preview_update"
  /\ \E err \in {Null, Some(UpdateFailed)} :
       filesTable' = IF err = Null
                     THEN UpdateViewCount(session.id, Val(dashOp.file).id, dashOp.basis + 1)
                     ELSE filesTable
  /\ dashOp' = IdleOp
  /\ UNCHANGED <<ticks, nextId, storage, page, session, uploadPage, listPage, dash>>

\* handleShareLink(file): storage.createSignedUrl(file.path, 3600)
handleShareLink_start ==
  /\ page = "/" /\ ~dash.loading
  /\ dashOp.pc = "idle"
  /\ \E i \in DOMAIN dash.files :
       LET file == dash.files[i] IN
       IF file.path = Null
       THEN /\ dash' = [dash EXCEPT !.error = Some("No file to share")]
            /\ dashOp' = [IdleOp EXCEPT !.file = Some(file)]   \* returned at once
       ELSE /\ OrZero(Some(file.download_count)) < MaxCount
            /\ dashOp' = [IdleOp EXCEPT !.pc = "link_sign", !.file = Some(file),
                                        !.basis = OrZero(Some(file.download_count))]
            /\ UNCHANGED dash
  /\ UNCHANGED <<backend, page, session, uploadPage, listPage>>

handleShareLink_errorThrows_never(error) == FALSE

\* handleShareLink: if (error) throw error
handleShareLink_errorThrows(error) == error # Null

\* storage.createSignedUrl(...) resolves
handleShareLink_sign ==
  /\ dashOp.pc = "link_sign"
  /\ \E err \in {Null, Some(SignFailed)} :
       /\ Val(dashOp.file).path \notin storage => err # Null
       /\ IF handleShareLink_errorThrows(err)
          THEN Dashboard_catch("Failed to generate share link")
          ELSE /\ dashOp' = [dashOp EXCEPT !.pc = "link_copy",
                           !.signedUrl = Some(createSignedUrl(Val(dashOp.file).path,
                                                              SIGNED_URL_SECONDS))]
               /\ UNCHANGED dash
  /\ UNCHANGED <<backend, page, session, uploadPage, listPage>>

\* navigator.clipboard.writeText(data.signedUrl) resolves; the update is issued
handleShareLink_copy ==
  /\ dashOp.pc = "link_copy"
  /\ \E ok \in BOOLEAN :
       IF ~ok
       THEN Dashboard_catch("Failed to generate share link")
       ELSE /\ dash' = [dash EXCEPT !.success = Some("Share link copied to clipboard")]
            /\ dashOp' = [dashOp EXCEPT !.pc = "link_update"]
  /\ UNCHANGED <<backend, page, session, uploadPage, listPage>>

\* update({download_count: (file.download_count || 0) + 1}).eq('id', file.id) resolves
handleShareLink_update ==
  /\ dashOp.pc = "link_update"
  /\ \E err \in {Null, Some(UpdateFailed)} :
       IF err # Null
       THEN /\ dashOp' = [dashOp EXCEPT !.pc = "link_logged"]
            /\ UNCHANGED filesTable
       ELSE /\ filesTable' = UpdateDownloadCount(session.id, Val(dashOp.file).id,
                                                  dashOp.basis + 1)
            /\ dashOp' = IdleOp
  /\ UNCHANGED <<ticks, nextId, storage, page, session, uploadPage, listPage, dash>>

\* handleShareLink: if (updateError) console.error('Error updating download
\* count:', updateError)
handleShareLink_logged ==
  /\ dashOp.pc = "link_logged"
  /\ dashOp' = IdleOp
  /\ UNCHANGED <<backend, page, session, uploadPage, listPage, dash>>

\* handleDownload(file): storage.download(file.path)
handleDownload_start ==
  /\ page = "/" /\ ~dash.loading
  /\ dashOp.pc = "idle"
  /\ \E i \in DOMAIN dash.files :
       LET file == dash.files[i] IN
       IF file.path = Null
       THEN /\ dash' = [dash EXCEPT !.error = Some("No file to download")]
            /\ UNCHANGED dashOp
       ELSE /\ OrZero(Some(file.download_count)) < MaxCount
            /\ dashOp' = [IdleOp EXCEPT !.pc = "download", !.file = Some(file),
                                        !.basis = OrZero(Some(file.download_count))]
            /\ UNCHANGED dash
  /\ UNCHANGED <<backend, page, session, uploadPage, listPage>>

\* storage.download(...) resolves; the update is issued
handleDownload_download ==
  /\ dashOp.pc = "download"
  /\ \E err \in {Null, Some(DownloadFailed)} :
       /\ Val(dashOp.file).path \notin storage => err # Null
       /\ IF err # Null
          THEN Dashboard_catch("Failed to download file")
          ELSE /\ dashOp' = [dashOp EXCEPT !.pc = "download_update"]
               /\ UNCHANGED dash
  /\ UNCHANGED <<backend, page, session, uploadPage, listPage>>

\* the update resolves (an error is only logged); setSuccess, and
\* fetchDashboardData() refreshes the list
handleDownload_update ==
  /\ dashOp.pc = "download_update"
  /\ \E err \in {Null, Some(UpdateFailed)} :
       /\ filesTable' = IF err = Null
                        THEN UpdateDownloadCount(session.id, Val(dashOp.file).id,
                                                 dashOp.basis + 1)
                        ELSE filesTable
       /\ dash' \in fetchDashboardDataResults(
                      [dash EXCEPT !.success = Some("File downloaded successfully")],
                      filesTable')
  /\ dashOp' = IdleOp
  /\ UNCHANGED <<ticks, nextId, storage, page, session, uploadPage, listPage>>

----------------------------------------------------------------------------
(* The clock *)

Tick ==
  /\ ticks < MaxTicks
  /\ ticks' = ticks + 1
  /\ UNCHANGED <<filesTable, nextId, storage, page, session, uploadPage, listPage, dashPage>>

----------------------------------------------------------------------------

(* The client of one signed-in user.  The user starts a handler, or leaves   *)
(* the page, only when no handler is running; the form is filled with one    *)
(* file and one message, and the clock stands still.                         *)

Next ==
  \/ Navigate
  \/ handleFileChange({SmallFile})
  \/ handleMessageChange({<<>>, Hello})
  \/ handleSubmit_validate(sub, sub2)
  \/ handleSubmit_getUser(sub, sub2)
  \/ handleSubmit_upload(sub, sub2)
  \/ handleSubmit_insert(sub, sub2, MaxEntries)
  \/ handleSubmit_remove(sub, sub2)
  \/ fetchFiles
  \/ FileList_clearDeleteSuccess
  \/ FileList_handleDeleteClick(ListedFiles)
  \/ FileList_handleDeleteCancel
  \/ FileList_handleDelete_start
  \/ FileList_handleDelete_remove
  \/ FileList_handleDelete_row
  \/ generateShareableLink_start(listOp, listOp2, MaxCount, ListedFiles)
  \/ generateShareableLink_check(listOp, listOp2)
  \/ generateShareableLink_sign(listOp, listOp2)
  \/ generateShareableLink_copy(listOp, listOp2)
  \/ generateShareableLink_update(listOp, listOp2)
  \/ generateShareableLink_logged(listOp, listOp2)
  \/ downloadFile_start
  \/ downloadFile_download
  \/ downloadFile_update
  \/ fetchDashboardData
  \/ Dashboard_clearNotifications
  \/ Dashboard_handleDeleteClick
  \/ Dashboard_handleDeleteClose
  \/ Dashboard_handleDelete_start
  \/ Dashboard_handleDelete_remove
  \/ Dashboard_handleDelete_row
  \/ handlePreview_start
  \/ handlePreview_download
  \/ handlePreview_update
  \/ handleShareLink_start
  \/ handleShareLink_sign
  \/ handleShareLink_copy
  \/ handleShareLink_update
  \/ handleShareLink_logged
  \/ handleDownload_start
  \/ handleDownload_download
  \/ handleDownload_update

Spec == Init /\ [][Next]_vars

(* The upload form alone: every way of filling the file and message fields,  *)
(* with the expiry and recipient fields left at their initial values         *)

NextSubmit ==
  \/ handleFileChange(Files)
  \/ clearFileSelection
  \/ handleMessageChange(Messages)
  \/ handleCancel
  \/ handleSubmit_validate(sub, sub2)
  \/ handleSubmit_getUser(sub, sub2)
  \/ handleSubmit_upload(sub, sub2)
  \/ handleSubmit_insert(sub, sub2, MaxSubmitted)
  \/ handleSubmit_remove(sub, sub2)
  \/ Tick

SpecSubmit == Init /\ [][NextSubmit]_vars

\* Every request handleSubmit awaits resolves or rejects: each step of a
\* running handleSubmit is taken eventually.
SpecSubmitFair ==
  /\ SpecSubmit
  /\ WF_vars(handleSubmit_getUser(sub, sub2))
  /\ WF_vars(handleSubmit_upload(sub, sub2))
  /\ WF_vars(handleSubmit_insert(sub, sub2, MaxSubmitted))
  /\ WF_vars(handleSubmit_remove(sub, sub2))

(* The upload form with the expiry field: the message "hello", with or      *)
(* without a file, and every text typed into the expiry field               *)

NextExpiry ==
  \/ handleFileChange({SmallFile})
  \/ handleMessageChange({<<>>, Hello})
  \/ handleExpiryChange(ExpiryTexts)
  \/ handleSubmit_validate(sub, sub2)
  \/ handleSubmit_getUser(sub, sub2)
  \/ handleSubmit_upload(sub, sub2)
  \/ handleSubmit_insert(sub, sub2, MaxSubmitted)
  \/ handleSubmit_remove(sub, sub2)
  \/ Tick

SpecExpiry == Init /\ [][NextExpiry]_vars

(* The upload form with the recipient field, used by principals with and     *)
(* without an email address                                                  *)

NextRecipient ==
  \/ SwitchAccount({User1, NoEmailUser})
  \/ Navigate
  \/ handleMessageChange({<<>>, Hello})
  \/ handleRecipientChange(Recipients)
  \/ handleSubmit_validate(sub, sub2)
  \/ handleSubmit_getUser(sub, sub2)
  \/ handleSubmit_insert(sub, sub2, MaxSubmitted)

SpecRecipient == Init /\ [][NextRecipient]_vars

\* Overlapping link issuances in the list view: the Share Link button stays
\* enabled while an issuance awaits, so a second handler can start and finish
\* before the first one writes its counter value.
NextOverlap ==
  \/ Navigate
  \/ handleFileChange({SmallFile})
  \/ handleSubmit_validate(sub, sub2)
  \/ handleSubmit_getUser(sub, sub2)
  \/ handleSubmit_upload(sub, sub2)
  \/ handleSubmit_insert(sub, sub2, MaxSubmitted)
  \/ handleSubmit_remove(sub, sub2)
  \/ fetchFiles
  \/ generateShareableLink_start(listOp, listOp2, MaxIssued, ListedFiles)
  \/ generateShareableLink_check(listOp, listOp2)
  \/ generateShareableLink_sign(listOp, listOp2)
  \/ generateShareableLink_copy(listOp, listOp2)
  \/ generateShareableLink_update(listOp, listOp2)
  \/ generateShareableLink_logged(listOp, listOp2)
  \/ generateShareableLink_start(listOp2, listOp, MaxIssued, ListedFiles)
  \/ generateShareableLink_check(listOp2, listOp)
  \/ generateShareableLink_sign(listOp2, listOp)
  \/ generateShareableLink_copy(listOp2, listOp)
  \/ generateShareableLink_update(listOp2, listOp)
  \/ generateShareableLink_logged(listOp2, listOp)

SpecOverlap == Init /\ [][NextOverlap]_vars

\* The active-transfers statistic as a function of the entries and the clock:
\* the table starts with any entries the FileData type allows (expiry_date:
\* string | null), and the statistic is evaluated as the clock advances.
SampleExpiries == {Null, Some(0), Some(TickMs), Some(MsPerDay)}

SampleEntry(id, e) ==
  [StoredRow(InsertRow(Null, Hello, "", DefaultExpiryDays, User1, EmptyPath, 0), id, 0)
     EXCEPT !.expiry_date = e]

\* the entry with id 1 may carry a file
SampleFileEntry(e) ==
  [StoredRow(InsertRow(Some(SmallFile), <<>>, "", DefaultExpiryDays, User1,
                       FilePath(User1, 1, SmallFile), 0), 1, 0)
     EXCEPT !.expiry_date = e]

SampleTables ==
  {T \in SUBSET ({SampleEntry(id, e) : id \in 1..MaxEntries, e \in SampleExpiries}
                   \cup {SampleFileEntry(e) : e \in SampleExpiries}) :
     \A r \in T : \A q \in T : r.id = q.id => r = q}

InitActive ==
  /\ ticks = 0
  /\ filesTable \in SampleTables
  /\ nextId = MaxEntries + 1
  /\ storage = {r.path : r \in {q \in filesTable : q.path # Null}}
  /\ page = "/upload"
  /\ session = User1
  /\ state = InitialState
  /\ sub = IdleSubmit
  /\ sub2 = IdleSubmit
  /\ list = InitialList
  /\ listOp = IdleOp
  /\ listOp2 = IdleOp
  /\ dash = InitialDash
  /\ dashOp = IdleOp

NextActive ==
  \/ Navigate
  \/ Tick
  \/ fetchDashboardStats
  \/ fetchDashboardData
  \/ fetchFiles
  \/ FileList_handleDeleteClick(ListedFiles)
  \/ FileList_handleDeleteCancel
  \/ FileList_handleDelete_start
  \/ FileList_handleDelete_remove
  \/ FileList_handleDelete_row

SpecActive == InitActive /\ [][NextActive]_vars

\* Link issuance on entries of every expiry state: the sample tables at an
\* instant before or after the sample expiry dates, and Share Link in the
\* list view and in the dashboard. The clock stands still while links are
\* issued.
InitLinks ==
  /\ ticks \in 0..MaxTicks
  /\ filesTable \in SampleTables
  /\ nextId = MaxEntries + 1
  /\ storage = {r.path : r \in {q \in filesTable : q.path # Null}}
  /\ page = "/upload"
  /\ session = User1
  /\ state = InitialState
  /\ sub = IdleSubmit
  /\ sub2 = IdleSubmit
  /\ list = InitialList
  /\ listOp = IdleOp
  /\ listOp2 = IdleOp
  /\ dash = InitialDash
  /\ dashOp = IdleOp

NextLinks ==
  \/ Navigate
  \/ fetchFiles
  \/ fetchDashboardData
  \/ generateShareableLink_start(listOp, listOp2, MaxCount, ListedFiles)
  \/ generateShareableLink_check(listOp, listOp2)
  \/ generateShareableLink_sign(listOp, listOp2)
  \/ generateShareableLink_copy(listOp, listOp2)
  \/ generateShareableLink_update(listOp, listOp2)
  \/ generateShareableLink_logged(listOp, listOp2)
  \/ handleShareLink_start
  \/ handleShareLink_sign
  \/ handleShareLink_copy
  \/ handleShareLink_update
  \/ handleShareLink_logged

SpecLinks == InitLinks /\ [][NextLinks]_vars

\* Overlapping submissions: Cancel sets uploading to false while handleSubmit
\* awaits, which enables the submit button again.
NextResubmit ==
  \/ handleFileChange({SmallFile})
  \/ handleMessageChange({<<>>, Hello})
  \/ handleCancel
  \/ handleSubmit_validate(sub, sub2)
  \/ handleSubmit_getUser(sub, sub2)
  \/ handleSubmit_upload(sub, sub2)
  \/ handleSubmit_insert(sub, sub2, MaxEntries)
  \/ handleSubmit_remove(sub, sub2)
  \/ handleSubmit_validate(sub2, sub)
  \/ handleSubmit_getUser(sub2, sub)
  \/ handleSubmit_upload(sub2, sub)
  \/ handleSubmit_insert(sub2, sub, MaxEntries)
  \/ handleSubmit_remove(sub2, sub)

SpecResubmit == Init /\ [][NextResubmit]_vars

\* The list view of readme.md: every button of a row carries
\* disabled={deleting === file.id}, so a handler can be started on the rows
\* whose id is not the one held in deleting. The table starts with two
\* entries that carry a file.
EnabledFiles == {f \in ListedFiles : list.deleting # Some(f.id)}

SampleNamedFileEntry(id) ==
  StoredRow(InsertRow(Some(SmallFile), <<>>, "", DefaultExpiryDays, User1,
                      FilePath(User1, id, SmallFile), 0), id, 0)

InitButtons ==
  /\ ticks = 0
  /\ filesTable = {SampleNamedFileEntry(id) : id \in 1..MaxEntries}
  /\ nextId = MaxEntries + 1
  /\ storage = {r.path : r \in filesTable}
  /\ page = "/upload"
  /\ session = User1
  /\ state = InitialState
  /\ sub = IdleSubmit
  /\ sub2 = IdleSubmit
  /\ list = InitialList
  /\ listOp = IdleOp
  /\ listOp2 = IdleOp
  /\ dash = InitialDash
  /\ dashOp = IdleOp

NextButtons ==
  \/ Navigate
  \/ fetchFiles
  \/ FileList_clearDeleteSuccess
  \/ FileList_handleDeleteClick(EnabledFiles)
  \/ FileList_handleDeleteCancel
  \/ FileList_handleDelete_start
  \/ FileList_handleDelete_remove
  \/ FileList_handleDelete_row
  \/ generateShareableLink_start(listOp, listOp2, MaxCount, EnabledFiles)
  \/ generateShareableLink_check(listOp, listOp2)
  \/ generateShareableLink_sign(listOp, listOp2)
  \/ generateShareableLink_copy(listOp, listOp2)
  \/ generateShareableLink_update(listOp, listOp2)
  \/ generateShareableLink_logged(listOp, listOp2)
  \/ generateShareableLink_start(listOp2, listOp, MaxCount, EnabledFiles)
  \/ generateShareableLink_check(listOp2, listOp)
  \/ generateShareableLink_sign(listOp2, listOp)
  \/ generateShareableLink_copy(listOp2, listOp)
  \/ generateShareableLink_update(listOp2, listOp)
  \/ generateShareableLink_logged(listOp2, listOp)

SpecButtons == InitButtons /\ [][NextButtons]_vars

\* The dashboard with its sort menu. The table starts with a file entry and a
\* later message; the user sorts, downloads and deletes.
SampleLaterEntry ==
  StoredRow(InsertRow(Null, Hello, "", DefaultExpiryDays, User1, EmptyPath, TickMs),
            MaxEntries, TickMs)

InitSort ==
  /\ ticks = MaxTicks
  /\ filesTable = {SampleNamedFileEntry(1), SampleLaterEntry}
  /\ nextId = MaxEntries + 1
  /\ storage = {SampleNamedFileEntry(1).path}
  /\ page = "/"
  /\ session = User1
  /\ state = InitialState
  /\ sub = IdleSubmit
  /\ sub2 = IdleSubmit
  /\ list = InitialList
  /\ listOp = IdleOp
  /\ listOp2 = IdleOp
  /\ dash = InitialDash
  /\ dashOp = IdleOp

NextSort ==
  \/ Navigate
  \/ fetchDashboardData
  \/ handleSort(SortFields)
  \/ Dashboard_clearNotifications
  \/ Dashboard_handleDeleteClick
  \/ Dashboard_handleDeleteClose
  \/ Dashboard_handleDelete_start
  \/ Dashboard_handleDelete_remove
  \/ Dashboard_handleDelete_row
  \/ handleDownload_start
  \/ handleDownload_download
  \/ handleDownload_update

SpecSort == InitSort /\ [][NextSort]_vars

\* Two principals on one backend. A handler may be called with any entry of
\* the table, not only with a listed one: a request for another principal's
\* entry. The policies of the storage bucket are not part of the repository,
\* so the deletion of another principal's blob is not explored.
RowsWithoutForeignBlob ==
  {r \in filesTable : r.user_id = session.id \/ r.path = Null}

NextOwners ==
  \/ SwitchAccount({User1, User2})
  \/ Navigate
  \/ handleFileChange({SmallFile})
  \/ handleMessageChange({<<>>, Hello})
  \/ handleSubmit_validate(sub, sub2)
  \/ handleSubmit_getUser(sub, sub2)
  \/ handleSubmit_upload(sub, sub2)
  \/ handleSubmit_insert(sub, sub2, MaxEntries)
  \/ handleSubmit_remove(sub, sub2)
  \/ fetchFiles
  \/ FileList_handleDeleteClick(RowsWithoutForeignBlob)
  \/ FileList_handleDelete_start
  \/ FileList_handleDelete_remove
  \/ FileList_handleDelete_row
  \/ generateShareableLink_start(listOp, listOp2, MaxCount, filesTable)
  \/ generateShareableLink_check(listOp, listOp2)
  \/ generateShareableLink_sign(listOp, listOp2)
  \/ generateShareableLink_copy(listOp, listOp2)
  \/ generateShareableLink_update(listOp, listOp2)
  \/ generateShareableLink_logged(listOp, listOp2)
  \/ fetchDashboardData
  \/ fetchDashboardStats

SpecOwners == Init /\ [][NextOwners]_vars

----------------------------------------------------------------------------
(* Properties *)

\* a text that is empty or consists of whitespace only
Blank(m) == \A i \in 1..Len(m) : m[i] \in Whitespace

\* the rows of the table after a step that were not in it before the step
NewRows == {r \in filesTable' : \A q \in filesTable : q.id # r.id}

\* a submit event is handled in this step
SubmitEvent == sub.pc \in {"idle", "done"} /\ sub' # sub

\* file.view_count || 0, as every reader of view_count computes it
ViewCountShown(r) ==
  IF r.view_count = Null \/ Val(r.view_count) = 0 THEN 0 ELSE Val(r.view_count)

\* C1: when the upload succeeded and the insert failed, the uploaded object is
\* not in storage once handleSubmit has finished, whatever the compensating
\* remove returned
C1_NoBlobAfterFailedInsert ==
  (sub.pc = "done" /\ sub.file # Null /\ sub.uploadError = Null /\ sub.dbError # Null)
    => sub.filePath \notin storage

\* C2: in both views, when handleDelete's storage remove for an entry with a
\* path returns an error (the object stays in storage), the handler finishes
\* in that step with an error shown, the record delete is not issued, and the
\* table is unchanged, so the record still exists
C2_FailedRemoveKeepsRecord ==
  [][ /\ (/\ listOp.pc = "delete_remove" /\ listOp' # listOp
          /\ Val(listOp.file).path \in storage
          /\ Val(listOp.file).path \in storage')
        => (/\ listOp'.pc = "idle" /\ list'.error # Null
            /\ filesTable' = filesTable)
      /\ (/\ dashOp.pc = "delete_remove" /\ dashOp' # dashOp
          /\ Val(dashOp.file).path \in storage
          /\ Val(dashOp.file).path \in storage')
        => (/\ dashOp'.pc = "idle" /\ dash'.error # Null
            /\ filesTable' = filesTable)
      /\ (listOp'.pc = "delete_row" /\ listOp.pc = "delete_remove")
        => Val(listOp.file).path \notin storage'
      /\ (dashOp'.pc = "delete_row" /\ dashOp.pc = "delete_remove")
        => Val(dashOp.file).path \notin storage' ]_vars

C2_Witness ==
  /\ page = "/files" /\ listOp.pc = "idle"
  /\ list.error = Some(RemoveFailed.message)
  /\ \E f \in filesTable :
       /\ f.path # Null /\ f.path \in storage
       /\ \E i \in DOMAIN list.files : list.files[i].id = f.id

\* C3: once handleDelete has finished, whatever the storage remove and the
\* record delete returned, no record is left whose path names an object that
\* is gone from storage (only deletions remove the object of a stored record)
C3_NoRecordWithoutItsBlob ==
  (listOp.pc = "idle" /\ dashOp.pc = "idle") =>
    \A r \in filesTable : r.path # Null => r.path \in storage

\* C4: a submit event with no file and an empty or whitespace-only message is
\* rejected with the validation message, and the step neither uses an auth
\* lookup, nor touches storage or the table, nor sets the uploading flag
C4_RejectionHasNoSideEffects ==
  [][ (SubmitEvent /\ state.file = Null /\ Blank(state.message)) =>
        /\ sub'.pc = "done" /\ sub'.result = "rejected" /\ sub'.user = Null
        /\ state'.error # Null
        /\ state'.uploading = state.uploading
        /\ filesTable' = filesTable /\ storage' = storage /\ nextId' = nextId ]_vars

C4_Witness ==
  /\ sub.result = "rejected" /\ sub.message = <<" ">>
  /\ state.error # Null /\ ~state.uploading

\* C5: a failed upload ends the submission with an error and without an insert
\* request; an insert for a submission with a file is issued only by the step
\* that received the successful upload response, and rows are only added by a
\* submission whose upload (if any) succeeded
C5_NoInsertAfterFailedUpload ==
  /\ [](sub.uploadError # Null =>
          sub.pc = "done" /\ sub.result = "error" /\ sub.row = Null)
  /\ [][ (sub'.pc = "insert" /\ sub.pc # "insert" /\ sub'.file # Null) =>
           (sub.pc = "upload" /\ sub'.uploadError = Null
              /\ sub'.filePath \in storage') ]_vars
  /\ [][ NewRows # {} =>
           (sub.pc = "insert" /\ sub.uploadError = Null
              /\ (sub.file # Null => sub.filePath # EmptyPath)) ]_vars

C5_Witness ==
  /\ sub.pc = "done" /\ sub.file # Null /\ sub.uploadError # Null
  /\ filesTable = {}

\* C6: every row of the table has a non-null path or a non-empty message, and
\* its type is file_and_message exactly when its path is non-null and
\* message_only exactly when its path is null
C6_ContentAndKindOfEveryEntry ==
  \A r \in filesTable :
    /\ r.path # Null \/ r.message # <<>>
    /\ r.type = "file_and_message" <=> r.path # Null
    /\ r.type = "message_only" <=> r.path = Null

C6_Witness ==
  \E r \in filesTable, q \in filesTable :
    /\ r.path = Null /\ r.type = "message_only"
    /\ q.path # Null /\ q.download_count > 0 /\ q.view_count # Null

\* C7: the row created by a submission has path null and type message_only
\* when no file was submitted, and a non-null path and type file_and_message
\* when a file was submitted, whatever the message
C7_CreatedKindFollowsFile ==
  [][ \A r \in NewRows :
        IF sub.file = Null
        THEN r.path = Null /\ r.type = "message_only"
        ELSE r.path # Null /\ r.type = "file_and_message" ]_vars

C7_Witness ==
  /\ sub.result = "success" /\ sub.file # Null /\ Blank(sub.message)
  /\ \E r \in filesTable : r.type = "file_and_message" /\ r.message = <<>>

C9_HelloSubmissionStored ==
  (sub.pc = "done" /\ sub.file = Null /\ sub.message = Hello
     /\ sub.expiryDays = 0 /\ sub.user # Null /\ sub.dbError # Some(InsertFailed))
    => /\ sub.result = "success"
       /\ \E r \in filesTable :
            /\ r.type = "message_only" /\ r.path = Null
            /\ r.expiry_date = Null /\ r.message = Hello

C11_RecipientDefaultsToOwner ==
  [][ \A r \in NewRows :
        /\ r.recipient_email =
             IF sub.recipientEmail # "" THEN Some(sub.recipientEmail)
                                        ELSE Val(sub.user).email
        /\ r.recipient_email # Null /\ r.recipient_email # Some("") ]_vars

C11_Witness ==
  /\ sub.result = "success" /\ sub.recipientEmail = ""
  /\ \E r \in filesTable : r.recipient_email = User1.email

C13_LinkForMessageOnlyReportsError ==
  [][ /\ (listOp' # listOp /\ listOp.pc = "idle" /\ listOp'.file # Null
             /\ Val(listOp'.file).path = Null /\ listOp'.basis = 0
             /\ listOp'.pc \in {"idle", "link_check"})
        => (listOp'.pc = "idle" /\ list'.error # Null /\ filesTable' = filesTable)
      /\ (dashOp' # dashOp /\ dashOp.pc = "idle" /\ dashOp'.file # Null
             /\ Val(dashOp'.file).path = Null
             /\ dashOp'.pc \in {"idle", "link_sign"})
        => (dashOp'.pc = "idle" /\ dash'.error # Null /\ filesTable' = filesTable)
    ]_vars

\* C14: with one client, every link issuance whose counter update succeeds
\* leaves the stored download_count of the entry exactly one greater than the
\* value stored before the update, in the list view and in the dashboard
C14_IssuanceAddsExactlyOne ==
  [][ /\ (listOp.pc = "link_update" /\ listOp'.pc = "idle" /\ listOp2.pc = "idle")
        => \A r \in filesTable : \A q \in filesTable' :
             (r.id = Val(listOp.file).id /\ q.id = r.id)
               => q.download_count = r.download_count + 1
      /\ (dashOp.pc = "link_update" /\ dashOp'.pc = "idle" /\ listOp2.pc = "idle")
        => \A r \in filesTable : \A q \in filesTable' :
             (r.id = Val(dashOp.file).id /\ q.id = r.id)
               => q.download_count = r.download_count + 1
    ]_vars

\* C15: the stored download_count and view_count of an entry never decrease
\* in any step, whatever the interleaving of link issuances, downloads and
\* previews
C15_CountersNeverDecrease ==
  [][ \A r \in filesTable : \A q \in filesTable' :
        q.id = r.id => /\ q.download_count >= r.download_count
                       /\ ViewCountShown(q) >= ViewCountShown(r) ]_vars

\* C16: when the signed URL was generated and the download_count update
\* fails, the issuance still succeeds: the link was copied and the success
\* notice set, the failure is only logged, no error is set and the table is
\* unchanged, in the list view and in the dashboard
C16_FailedCounterUpdateStillDelivers ==
  [][ /\ (listOp.pc = "link_copy" /\ listOp'.pc = "link_update")
        => list'.deleteSuccess = Some("Link copied to clipboard")
      /\ (listOp.pc = "link_update" /\ listOp'.pc = "link_logged")
        => (list' = list /\ filesTable' = filesTable)
      /\ (listOp.pc = "link_logged" /\ listOp' # listOp)
        => (listOp' = IdleOp /\ list'.error = list.error
            /\ list'.deleteSuccess = list.deleteSuccess /\ filesTable' = filesTable)
      /\ (dashOp.pc = "link_copy" /\ dashOp'.pc = "link_update")
        => dash'.success = Some("Share link copied to clipboard")
      /\ (dashOp.pc = "link_update" /\ dashOp'.pc = "link_logged")
        => (dash' = dash /\ filesTable' = filesTable)
      /\ (dashOp.pc = "link_logged" /\ dashOp' # dashOp)
        => (dashOp' = IdleOp /\ dash'.error = dash.error
            /\ dash'.success = dash.success /\ filesTable' = filesTable)
    ]_vars

C16_Witness ==
  /\ listOp.pc = "link_logged"
  /\ list.deleteSuccess = Some("Link copied to clipboard") /\ list.error = Null
  /\ \E r \in filesTable : r.id = Val(listOp.file).id /\ r.download_count = listOp.basis

\* the step is the counter update of a link issuance
LinkIssuanceStep ==
  \/ listOp.pc = "link_update" /\ listOp' # listOp
  \/ listOp2.pc = "link_update" /\ listOp2' # listOp2
  \/ dashOp.pc = "link_update" /\ dashOp' # dashOp

\* the step is the counter update of a direct download
DirectDownloadStep ==
  \/ listOp.pc = "download_update" /\ listOp' # listOp
  \/ dashOp.pc = "download_update" /\ dashOp' # dashOp

\* the step is the counter update of a preview
PreviewStep == dashOp.pc = "preview_update" /\ dashOp' # dashOp

\* C17 (as stated): download_count is changed only by a link issuance and
\* view_count only by a preview; no other operation, direct download
\* included, changes either counter of an entry
C17_CountersChangedOnlyByLinkAndPreview ==
  [][ \A r \in filesTable : \A q \in filesTable' :
        q.id = r.id =>
          /\ (q.download_count # r.download_count => LinkIssuanceStep)
          /\ (q.view_count # r.view_count => PreviewStep) ]_vars

\* C17 (amended): download_count is changed only by a link issuance or a
\* direct download, and view_count only by a preview; submission, listing
\* and deletion attempts change neither counter of an entry
C17_CountersChangedOnlyByLinkDownloadAndPreview ==
  [][ \A r \in filesTable : \A q \in filesTable' :
        q.id = r.id =>
          /\ (q.download_count # r.download_count
                => (LinkIssuanceStep \/ DirectDownloadStep))
          /\ (q.view_count # r.view_count
                => (PreviewStep /\ q.download_count = r.download_count)) ]_vars

C17_Witness ==
  /\ dashOp.pc = "idle" /\ dash.success = Some("File downloaded successfully")
  /\ \E r \in filesTable : r.download_count = 1 /\ r.view_count = Some(1)

\* C18: as long as an entry exists, no step changes its id, name, path,
\* message, recipient_email, user_id or created_at: a step that changes the
\* row changes only download_count or only view_count
C18_EntryImmutableExceptCounters ==
  [][ \A r \in filesTable : \A q \in filesTable' :
        q.id = r.id =>
          /\ q.name = r.name /\ q.path = r.path /\ q.message = r.message
          /\ q.recipient_email = r.recipient_email /\ q.user_id = r.user_id
          /\ q.created_at = r.created_at
          /\ \/ q = [r EXCEPT !.download_count = q.download_count]
             \/ q = [r EXCEPT !.view_count = q.view_count] ]_vars

C18_Witness ==
  \E r \in filesTable :
    /\ r.download_count = 1 /\ r.view_count = Some(1)
    /\ r.message # <<>> /\ r.path # Null /\ r.created_at = 0

\* the rows of the table that belong to the signed-in principal
OwnRows(table) == {r \in table : r.user_id = session.id}

\* C19: every read, update and delete is scoped to the requesting principal:
\* a step taken under a session leaves every record of another principal in
\* the table unchanged, the lists a view fetched hold only records of the
\* session's principal, and the statistics count only those records
C19_OperationsScopedToPrincipal ==
  [][ /\ \A r \in filesTable : r.user_id # session.id => r \in filesTable'
      /\ \A i \in DOMAIN list'.files : list'.files[i].user_id = session'.id
      /\ \A i \in DOMAIN dash'.files : dash'.files[i].user_id = session'.id
      /\ (dash.statsLoading /\ ~dash'.statsLoading)
           => /\ dash'.stats.totalFiles \in {0, Cardinality(OwnRows(filesTable))}
              /\ dash'.stats.activeTransfers <= Cardinality(OwnRows(filesTable))
              /\ dash'.stats.totalDownloads \in {0, SumDownloads(OwnRows(filesTable))}
    ]_vars

C19_Witness ==
  /\ session = User2 /\ page = "/files"
  /\ listOp = IdleOp /\ list.deleteSuccess = Some("Link copied to clipboard")
  /\ Len(list.files) = 1
  /\ \E r \in filesTable : r.path # Null
  /\ \A r \in filesTable : r.path # Null => (r.user_id = User1.id /\ r.download_count = 0)

\* C20: a delete of an entry owned by another principal fails with an error
\* reported to the requester and changes nothing: no success notice is shown,
\* and the record and the blob of the owner still exist
C20_ForeignDeleteFailsWithError ==
  [][ (listOp.pc = "delete_row" /\ listOp' # listOp
         /\ Val(listOp.file).user_id # session.id)
        => /\ list'.error # Null
           /\ list'.deleteSuccess = list.deleteSuccess
           /\ filesTable' = filesTable /\ storage' = storage ]_vars

IsExpired(r) == r.expiry_date # Null /\ Val(r.expiry_date) < Now

\* the step belongs to a deletion the owner requested for the entry r
OwnerDeletes(r) ==
  \/ /\ listOp.pc \in {"delete_remove", "delete_row"} /\ listOp' # listOp
     /\ Val(listOp.file).id = r.id
  \/ /\ dashOp.pc \in {"delete_remove", "delete_row"} /\ dashOp' # dashOp
     /\ Val(dashOp.file).id = r.id

\* C23: passing its expiry date never changes or removes an entry: the record
\* and the blob of an expired entry go only in a deletion its owner requested,
\* the clock and the statistics write to neither store, and a list fetched
\* without error holds every entry of the owner, the expired ones included
C23_ExpiryNeverRemoves ==
  [][ /\ \A r \in filesTable :
           (IsExpired(r) /\ ~OwnerDeletes(r))
             => (r \in filesTable' /\ (r.path \in storage => r.path \in storage'))
      /\ (ticks' # ticks \/ (dash.statsLoading /\ ~dash'.statsLoading))
           => (filesTable' = filesTable /\ storage' = storage)
      /\ (list.loading /\ ~list'.loading /\ list'.error = Null /\ list'.files # <<>>)
           => \A r \in OwnRows(filesTable) : \E i \in DOMAIN list'.files : list'.files[i] = r
    ]_vars

C23_Witness ==
  /\ ticks = 1 /\ page = "/files" /\ ~list.loading /\ listOp = IdleOp
  /\ \E i \in DOMAIN list.files :
       /\ list.files[i].expiry_date = Some(0) /\ list.files[i].path # Null
       /\ list.files[i] \in filesTable /\ list.files[i].path \in storage

\* C24: every failure of a step of the submit, link and delete workflows,
\* counter updates excepted, ends with an error shown to the user: a submission
\* that finishes without success, a link issuance that ends before its counter
\* update, a link request for a message-only entry and a deletion that ends
\* with the record still in the table all set the view's error
C24_FailuresAreReported ==
  [][ /\ (sub.pc \in {"getUser", "upload", "insert", "remove"}
             /\ sub'.pc = "done" /\ sub'.result # "success")
           => state'.error # Null
      /\ (listOp.pc \in {"link_check", "link_sign", "link_copy"} /\ listOp'.pc = "idle")
           => list'.error # Null
      /\ (listOp.pc = "idle" /\ listOp' # listOp /\ listOp'.pc = "idle"
             /\ listOp'.file # Null /\ Val(listOp'.file).path = Null)
           => list'.error # Null
      /\ (listOp.pc \in {"delete_remove", "delete_row"} /\ listOp'.pc = "idle"
             /\ Val(listOp.file) \in filesTable')
           => list'.error # Null
      /\ (dashOp.pc \in {"link_sign", "link_copy"} /\ dashOp'.pc = "idle")
           => dash'.error # Null
      /\ (dashOp.pc = "idle" /\ dashOp' # dashOp /\ dashOp'.pc = "idle"
             /\ dashOp'.file # Null /\ Val(dashOp'.file).path = Null)
           => dash'.error # Null
      /\ (dashOp.pc \in {"delete_remove", "delete_row"} /\ dashOp'.pc = "idle"
             /\ Val(dashOp.file) \in filesTable')
           => dash'.error # Null
    ]_vars

\* handleSubmit has passed validation in the slot s and has not finished
InFlight(s) == s.pc \in {"getUser", "upload", "insert", "remove"}

\* C25: from the moment a submission has passed validation until handleSubmit
\* finishes, no second submission is started from the same form: two runs of
\* handleSubmit are never in flight together
C25_OneSubmissionAtATime == ~(InFlight(sub) /\ InFlight(sub2))

\* C26: lost update. A link issuance whose counter update succeeds stores its
\* own basis plus one, whatever is stored by then: of two issuances that took
\* the same basis c the second one to write leaves c + 1, not c + 2
C26_LastWriteWins ==
  [][ /\ (listOp.pc = "link_update" /\ listOp'.pc = "idle")
           => \A q \in filesTable' :
                q.id = Val(listOp.file).id => q.download_count = listOp.basis + 1
      /\ (listOp2.pc = "link_update" /\ listOp2'.pc = "idle")
           => \A q \in filesTable' :
                q.id = Val(listOp2.file).id => q.download_count = listOp2.basis + 1
    ]_vars

\* both issuances took the basis 0, the first has written 1 and the second is
\* about to write
C26_Witness ==
  /\ listOp = IdleOp /\ listOp2.pc = "link_update" /\ listOp2.basis = 0
  /\ \E i \in DOMAIN list.files :
       list.files[i].id = Val(listOp2.file).id /\ list.files[i].download_count = 1
  /\ \E r \in filesTable : r.id = Val(listOp2.file).id /\ r.download_count = 1

\* a delete or a link generation runs in the slot op
Busy(op) ==
  op.pc \in {"delete_remove", "delete_row", "link_check", "link_sign",
              "link_copy", "link_update", "link_logged"}

\* C27: while a delete or a link generation for an entry is in flight, the
\* buttons of that entry stay disabled: deleting holds the id of the entry
\* until the operation finishes, whatever is started on other entries
C27_ButtonsDisabledWhileInFlight ==
  /\ Busy(listOp) => list.deleting = Some(Val(listOp.file).id)
  /\ Busy(listOp2) => list.deleting = Some(Val(listOp2.file).id)

\* C28: a submission that passed validation eventually finishes, and the step
\* that finishes it leaves uploading false and sets exactly one of the two
\* outcomes: success true with no error, or an error with success left as it
\* was; on every path (missing user, failed upload, failed insert with or
\* without a failing remove, success)
C28_SubmissionFinishesWithOneOutcome ==
  /\ [][ (InFlight(sub) /\ sub'.pc = "done")
           => /\ ~state'.uploading
              /\ \/ (sub'.result = "success" /\ state'.success /\ state'.error = Null)
                 \/ (sub'.result = "error" /\ state'.error # Null
                        /\ state'.success = state.success) ]_vars
  /\ (InFlight(sub) ~> sub.pc = "done")

C28_Witness ==
  /\ sub.pc = "done" /\ sub.result = "error" /\ sub.dbError # Null
  /\ sub.filePath \in storage
  /\ ~state.uploading /\ state.error # Null /\ ~state.success

\* C29: in the dashboard, whenever no fetch or delete is in flight, the
\* displayed list is ordered by the current sortField and sortOrder
IsOrdered(f, field, order) ==
  \A i \in DOMAIN f : \A j \in DOMAIN f :
     i < j => Comparison(f[i], f[j], field, order) <= 0

C29_ListOrderedBySortSelection ==
  (page = "/" /\ ~dash.loading /\ ~dash.isDeleting /\ dashOp.pc = "idle")
    => IsOrdered(dash.files, dash.sortField, dash.sortOrder)

TypeOK ==
  /\ ticks \in 0..MaxTicks
  /\ nextId \in 1..(MaxEntries + 1)
  /\ state.uploading \in BOOLEAN

====
